---- MODULE Spec2Model ----
(***************************************************************************)
(* Model of src/print_grid.py: fetch a document, parse coordinate/char     *)
(* triplets out of its text and print them as a grid.                      *)
(*                                                                         *)
(* Strings are sequences of code points (naturals), so that stripping,     *)
(* splitting, integer parsing, the U+HEX pattern and chr() are computed on *)
(* characters as the code computes them.  The texts explored are ASCII:    *)
(* the line breaks other than \n that splitlines() knows, and the          *)
(* underscores and non-ASCII digits that int() accepts, do not occur.      *)
(***************************************************************************)
EXTENDS Integers, Sequences, FiniteSets, TLC

VARIABLES argv, pc, fetches, text, lines, raw_lines, li, vi, points,
          malformed_inline, stderr, stdout, exit

vars == <<argv, pc, fetches, text, lines, raw_lines, li, vi, points,
          malformed_inline, stderr, stdout, exit>>

(***************************************************************************)
(* Bounds of the explored inputs.                                          *)
(***************************************************************************)
MaxToks == 4
MaxLines == 5

(***************************************************************************)
(* Characters.                                                             *)
(***************************************************************************)
Ch == [nl |-> 10, tab |-> 9, sp |-> 32, dquote |-> 34, hash |-> 35,
       quote |-> 39, plus |-> 43, comma |-> 44, minus |-> 45, zero |-> 48,
       A |-> 65, F |-> 70, U |-> 85, a |-> 97, b |-> 98, f |-> 102]


Min(S) == CHOOSE m \in S : \A k \in S : m <= k
Max(S) == CHOOSE m \in S : \A k \in S : m >= k

\* characters str.strip() and the regex class \s remove (ASCII part)
Whitespace == {Ch.tab, Ch.nl, 11, 12, 13, Ch.sp}
\* the regex class \d and the digits int() accepts (ASCII part)
Digits == Ch.zero .. (Ch.zero + 9)
\* [0-9A-Fa-f]
HexDigits == Digits \cup (Ch.A .. Ch.F) \cup (Ch.a .. Ch.f)
\* the argument of token.strip("'\"")
QuoteChars == {Ch.quote, Ch.dquote}
\* the regex class [\s,]
Separators == Whitespace \cup {Ch.comma}

\* str.strip(chars): drop the leading and trailing characters that are in S
StripChars(s, S) ==
  LET keep == {i \in 1..Len(s) : s[i] \notin S}
  IN IF keep = {} THEN <<>> ELSE SubSeq(s, Min(keep), Max(keep))

Strip(s) == StripChars(s, Whitespace)

\* str.splitlines(): no empty last line after a trailing newline
RECURSIVE SplitLines(_)
SplitLines(t) ==
  IF t = <<>> THEN <<>>
  ELSE LET nls == {i \in 1..Len(t) : t[i] = Ch.nl}
       IN IF nls = {} THEN <<t>>
          ELSE <<SubSeq(t, 1, Min(nls) - 1)>>
               \o SplitLines(SubSeq(t, Min(nls) + 1, Len(t)))

\* index of the last character of the maximal run of S-characters that
\* starts at i (i - 1 when s[i] is not in S or i is past the end)
RunEnd(s, i, S) ==
  LET bad == {k \in i..Len(s) : s[k] \notin S}
  IN IF bad = {} THEN Len(s) ELSE Min(bad) - 1

\* re.split(r"[\s,]+", line): a leading or trailing separator run leaves an
\* empty first or last token
RECURSIVE ReSplit(_)
ReSplit(s) ==
  LET seps == {i \in 1..Len(s) : s[i] \in Separators}
  IN IF seps = {} THEN <<s>>
     ELSE LET p == Min(seps)
              q == RunEnd(s, p, Separators)
          IN <<SubSeq(s, 1, p - 1)>> \o ReSplit(SubSeq(s, q + 1, Len(s)))

\* value of a run of decimal digits
RECURSIVE DecVal(_)
DecVal(ds) ==
  IF ds = <<>> THEN 0
  ELSE 10 * DecVal(SubSeq(ds, 1, Len(ds) - 1)) + (ds[Len(ds)] - Ch.zero)

\* value of a run of hex digits: int(h, 16)
HexDigitVal(c) ==
  IF c \in Digits THEN c - Ch.zero
  ELSE IF c \in Ch.A .. Ch.F THEN c - Ch.A + 10 ELSE c - Ch.a + 10

RECURSIVE HexVal(_)
HexVal(hs) ==
  IF hs = <<>> THEN 0
  ELSE 16 * HexVal(SubSeq(hs, 1, Len(hs) - 1)) + HexDigitVal(hs[Len(hs)])

\* the digits of s after an optional sign
Unsigned(s) ==
  IF s # <<>> /\ s[1] \in {Ch.plus, Ch.minus} THEN Tail(s) ELSE s

\* is_int(s): int(s) does not raise
is_int(s) ==
  LET body == Unsigned(Strip(s))
  IN body # <<>> /\ \A i \in 1..Len(body) : body[i] \in Digits

\* int(s) for an s that is_int accepts
int(s) ==
  LET t == Strip(s)
  IN IF t[1] = Ch.minus THEN 0 - DecVal(Unsigned(t)) ELSE DecVal(Unsigned(t))


(***************************************************************************)
(* parse_text_to_points: the work done on one line or one group of lines.  *)
(* A result that may be absent is a record with an ok field.               *)
(***************************************************************************)
Nothing == [ok |-> FALSE]

\* -?\d+ starting at i: index of its last character, 0 when there is none
NumEnd(s, i) ==
  LET d == IF i <= Len(s) /\ s[i] = Ch.minus THEN i + 1 ELSE i
      e == RunEnd(s, d, Digits)
  IN IF e >= d THEN e ELSE 0

\* value of the -?\d+ group s[i..e]
NumVal(s, i, e) ==
  IF s[i] = Ch.minus THEN 0 - DecVal(SubSeq(s, i + 1, e))
  ELSE DecVal(SubSeq(s, i, e))

\* ru matched at position p: U\+([0-9A-Fa-f]{4,6})\s+(-?\d+)\s+(-?\d+)
\* (no group can give characters back to make a later one match: the
\* character after a maximal run is never of the class of the run)
RuAt(s, p) ==
  IF ~(p + 1 <= Len(s) /\ s[p] = Ch.U /\ s[p + 1] = Ch.plus) THEN Nothing
  ELSE
    LET h  == RunEnd(s, p + 2, HexDigits)
        w1 == RunEnd(s, h + 1, Whitespace)
        e1 == NumEnd(s, w1 + 1)
        w2 == IF e1 = 0 THEN 0 ELSE RunEnd(s, e1 + 1, Whitespace)
        e2 == IF e1 = 0 THEN 0 ELSE NumEnd(s, w2 + 1)
    IN IF /\ h - (p + 1) \in 4..6
          /\ w1 >= h + 1
          /\ e1 # 0
          /\ w2 >= e1 + 1
          /\ e2 # 0
       THEN [ok  |-> TRUE,
             hex |-> SubSeq(s, p + 2, h),
             x   |-> NumVal(s, w1 + 1, e1),
             y   |-> NumVal(s, w2 + 1, e2)]
       ELSE Nothing

\* ru.search(line): the leftmost match
RuSearch(s) ==
  LET hits == {p \in 1..Len(s) : RuAt(s, p).ok}
  IN IF hits = {} THEN Nothing ELSE RuAt(s, Min(hits))

\* largest argument chr() accepts (0x10FFFF); above it chr raises ValueError
MaxCodePoint == 1114111

ChrRaises(n) == n > MaxCodePoint

\* chr(n) for an n it accepts: the one-character string
chr(n) == <<n>>

\* Window without "if token:": a token stripped to nothing is stored
Window_StoresEmptyToken(toks, i) ==
  LET a == toks[i]
      b == toks[i + 1]
      c == toks[i + 2]
  IN IF is_int(a) /\ is_int(b) /\ ~is_int(c)
     THEN [ok |-> TRUE, key |-> <<int(a), int(b)>>, token |-> StripChars(c, QuoteChars)]
     ELSE IF is_int(a) /\ ~is_int(b) /\ is_int(c)
     THEN [ok |-> TRUE, key |-> <<int(a), int(c)>>, token |-> StripChars(b, QuoteChars)]
     ELSE IF ~is_int(a) /\ is_int(b) /\ is_int(c)
     THEN [ok |-> TRUE, key |-> <<int(b), int(c)>>, token |-> StripChars(a, QuoteChars)]
     ELSE Nothing

\* Window without .strip("'\""): the token is stored as written
Window_KeepsQuotes(toks, i) ==
  LET a == toks[i]
      b == toks[i + 1]
      c == toks[i + 2]
  IN IF is_int(a) /\ is_int(b) /\ ~is_int(c) /\ c # <<>>
     THEN [ok |-> TRUE, key |-> <<int(a), int(b)>>, token |-> c]
     ELSE IF is_int(a) /\ ~is_int(b) /\ is_int(c) /\ b # <<>>
     THEN [ok |-> TRUE, key |-> <<int(a), int(c)>>, token |-> b]
     ELSE IF ~is_int(a) /\ is_int(b) /\ is_int(c) /\ a # <<>>
     THEN [ok |-> TRUE, key |-> <<int(b), int(c)>>, token |-> a]
     ELSE Nothing

\* the three sub-patterns tried on the window toks[i], toks[i+1], toks[i+2],
\* in the order of the code; ok when one of them stores and breaks
Window(toks, i) ==
  LET a == toks[i]
      b == toks[i + 1]
      c == toks[i + 2]
  IN IF is_int(a) /\ is_int(b) /\ ~is_int(c) /\ StripChars(c, QuoteChars) # <<>>
     THEN [ok |-> TRUE, key |-> <<int(a), int(b)>>, token |-> StripChars(c, QuoteChars)]
     ELSE IF is_int(a) /\ ~is_int(b) /\ is_int(c) /\ StripChars(b, QuoteChars) # <<>>
     THEN [ok |-> TRUE, key |-> <<int(a), int(c)>>, token |-> StripChars(b, QuoteChars)]
     ELSE IF ~is_int(a) /\ is_int(b) /\ is_int(c) /\ StripChars(a, QuoteChars) # <<>>
     THEN [ok |-> TRUE, key |-> <<int(b), int(c)>>, token |-> StripChars(a, QuoteChars)]
     ELSE Nothing

\* for i in range(len(toks) - 2): ... break on the first window that stores
RECURSIVE ScanWindows(_, _)
ScanWindows(toks, i) ==
  IF i > Len(toks) - 2 THEN Nothing
  ELSE IF Window(toks, i).ok THEN Window(toks, i)
  ELSE ScanWindows(toks, i + 1)

\* Put as points.setdefault(key, token): the first writer wins
Put_KeepsFirst(pts, key, token) ==
  [k \in DOMAIN pts \cup {key} |-> IF k \in DOMAIN pts THEN pts[k] ELSE token]

\* the dict store points[key] = token
Put(pts, key, token) ==
  [k \in DOMAIN pts \cup {key} |-> IF k = key THEN token ELSE pts[k]]

NoPoints == [k \in {} |-> <<>>]

\* InlineLine with the "fewer than 3 tokens" lines counted as malformed
InlineLine_CountsShortLines(line) ==
  LET m == RuSearch(line)
  IN IF m.ok
     THEN IF ChrRaises(HexVal(m.hex))
          THEN [raises |-> TRUE, store |-> Nothing, malformed |-> 0]
          ELSE [raises |-> FALSE, malformed |-> 0,
                store |-> [ok |-> TRUE, key |-> <<m.x, m.y>>,
                           token |-> chr(HexVal(m.hex))]]
     ELSE LET toks == ReSplit(line)
          IN IF Len(toks) >= 3 /\ ScanWindows(toks, 1).ok
             THEN [raises |-> FALSE, store |-> ScanWindows(toks, 1), malformed |-> 0]
             ELSE [raises |-> FALSE, store |-> Nothing, malformed |-> 1]

\* body of "for line in lines" for one line: what it stores, whether it
\* counts the line as malformed, whether it raises
InlineLine(line) ==
  LET m == RuSearch(line)
  IN IF m.ok
     THEN IF ChrRaises(HexVal(m.hex))
          THEN [raises |-> TRUE, store |-> Nothing, malformed |-> 0]
          ELSE [raises |-> FALSE, malformed |-> 0,
                store |-> [ok |-> TRUE, key |-> <<m.x, m.y>>,
                           token |-> chr(HexVal(m.hex))]]
     ELSE LET toks == ReSplit(line)
          IN IF Len(toks) < 3
             THEN [raises |-> FALSE, store |-> Nothing, malformed |-> 0]
             ELSE IF ScanWindows(toks, 1).ok
             THEN [raises |-> FALSE, store |-> ScanWindows(toks, 1), malformed |-> 0]
             ELSE [raises |-> FALSE, store |-> Nothing, malformed |-> 1]

\* lines = [ln.strip() for ln in text.splitlines() if ln.strip()]
RECURSIVE MapStrip(_)
MapStrip(ls) ==
  IF ls = <<>> THEN <<>> ELSE <<Strip(Head(ls))>> \o MapStrip(Tail(ls))

NonBlank(ln) == ln # <<>>

StrippedLines(t) == SelectSeq(MapStrip(SplitLines(t)), NonBlank)

\* the test of the second pass on raw_lines[i], [i+1], [i+2]
VerticalAt(raw, i) ==
  LET a == Strip(raw[i])
      b == Strip(raw[i + 1])
      c == Strip(raw[i + 2])
  IN IF is_int(a) /\ ~is_int(b) /\ is_int(c) /\ b # <<>>
     THEN [ok |-> TRUE, key |-> <<int(a), int(c)>>, token |-> b]
     ELSE Nothing

(***************************************************************************)
(* print_grid_from_doc_url: the grid.                                      *)
(***************************************************************************)
RECURSIVE Concat(_)
\* "".join(row)
Concat(cells) ==
  IF cells = <<>> THEN <<>> ELSE Head(cells) \o Concat(Tail(cells))

\* Grid with row 0 at the largest y (y growing upwards)
Grid_YUpwards(pts) ==
  LET xs == {k[1] : k \in DOMAIN pts}
      ys == {k[2] : k \in DOMAIN pts}
      width == Max(xs) - Min(xs) + 1
      height == Max(ys) - Min(ys) + 1
  IN [r \in 1..height |->
       [c \in 1..width |->
         IF <<c - 1 + Min(xs), Max(ys) - (r - 1)>> \in DOMAIN pts
         THEN pts[<<c - 1 + Min(xs), Max(ys) - (r - 1)>>]
         ELSE <<Ch.sp>>]]

\* grid = [[" "] * width] * height, then grid[y - min_y][x - min_x] = ch for
\* every item of points (row and column indexes from 0 in the code, from 1
\* here)
Grid(pts) ==
  LET xs == {k[1] : k \in DOMAIN pts}
      ys == {k[2] : k \in DOMAIN pts}
      min_x == Min(xs)
      max_x == Max(xs)
      min_y == Min(ys)
      max_y == Max(ys)
      width == max_x - min_x + 1
      height == max_y - min_y + 1
  IN [r \in 1..height |->
       [c \in 1..width |->
         IF <<c - 1 + min_x, r - 1 + min_y>> \in DOMAIN pts
         THEN pts[<<c - 1 + min_x, r - 1 + min_y>>]
         ELSE <<Ch.sp>>]]

\* what print() wrote: a grid row, or one of the two fixed messages
Row(chars) == [kind |-> "row", chars |-> chars]
Sentinel == [kind |-> "No coordinate data found", chars |-> <<>>]
Usage == [kind |-> "Usage: python print_grid.py <google-doc-url>", chars |-> <<>>]

\* Printed without "if not points": an empty mapping prints no line
Printed_NoSentinel(pts) ==
  IF DOMAIN pts = {} THEN <<>>
  ELSE [r \in 1..Len(Grid(pts)) |-> Row(Concat(Grid(pts)[r]))]

\* for row in grid: print("".join(row))
Printed(pts) ==
  IF DOMAIN pts = {} THEN <<Sentinel>>
  ELSE [r \in 1..Len(Grid(pts)) |-> Row(Concat(Grid(pts)[r]))]

(***************************************************************************)
(* extract_doc_id and fetch_doc_text.  A URL is a sequence of pieces; the  *)
(* two regular expressions look for a marker piece directly followed by    *)
(* characters of [A-Za-z0-9_-].                                            *)
(***************************************************************************)
PathMark == "/document/d/"
QueryMarks == {"?id=", "&id="}
\* pieces made of [A-Za-z0-9_-] only
IdPieces == {"1aB_-9", "xyz"}
\* pieces that start with a character outside [A-Za-z0-9_-]
OtherPieces == {"/edit"}
Prog == <<"print_grid.py">>
Host == "https://docs.google.com"

\* the group ([A-Za-z0-9_-]+) after the marker at p, when it is not empty
IdAfter(url, p) == SubSeq(url, p + 1, RunEnd(url, p + 1, IdPieces))

extract_doc_id(url) ==
  LET path == {p \in 1..Len(url) : url[p] = PathMark /\ IdAfter(url, p) # <<>>}
      query == {p \in 1..Len(url) : url[p] \in QueryMarks /\ IdAfter(url, p) # <<>>}
  IN IF path # {} THEN [ok |-> TRUE, id |-> IdAfter(url, Min(path))]
     ELSE IF query # {} THEN [ok |-> TRUE, id |-> IdAfter(url, Min(query))]
     ELSE Nothing

\* f"https://docs.google.com/document/d/{doc_id}/export?format=txt"
ExportUrl(doc_id) == <<Host, PathMark>> \o doc_id \o <<"/export?format=txt">>

(***************************************************************************)
(* The inputs explored.                                                    *)
(***************************************************************************)
MaxUrlPieces == 4

SeqsUpTo(S, n) == UNION {[1..k -> S] : k \in 0..n}

RECURSIVE JoinWith(_, _)
JoinWith(ss, sep) ==
  IF ss = <<>> THEN <<>>
  ELSE IF Len(ss) = 1 THEN ss[1]
  ELSE ss[1] \o sep \o JoinWith(Tail(ss), sep)

D(n) == Ch.zero + n

Urls ==
  {<<Host>> \o u :
     u \in SeqsUpTo({PathMark} \cup QueryMarks \cup IdPieces \cup OtherPieces,
                    MaxUrlPieces)}

\* 1, -2, a, 'b', '", the empty token, U+0041
WideTokens ==
  { <<D(1)>>, <<Ch.minus, D(2)>>, <<Ch.a>>, <<Ch.quote, Ch.b, Ch.quote>>,
    <<Ch.quote, Ch.dquote>>, <<>>, <<Ch.U, Ch.plus, D(0), D(0), D(4), D(1)>> }

\* one line of up to MaxToks tokens, separated by spaces or by commas
WideTexts ==
  {JoinWith(ts, sep) : ts \in SeqsUpTo(WideTokens, MaxToks),
                       sep \in {<<Ch.sp>>, <<Ch.comma>>}}

\* 0041 (A), 0027 ('), 10FFFF (the last code point), 110000 and FFFFFF (past
\* it), 041 and 0000041 (3 and 7 digits)
HexSamples ==
  { <<D(0), D(0), D(4), D(1)>>, <<D(0), D(0), D(2), D(7)>>,
    <<D(1), D(0), Ch.F, Ch.F, Ch.F, Ch.F>>, <<D(1), D(1), D(0), D(0), D(0), D(0)>>,
    <<Ch.F, Ch.f, Ch.F, Ch.f, Ch.F, Ch.f>>,
    <<D(0), D(4), D(1)>>, <<D(0), D(0), D(0), D(0), D(0), D(4), D(1)>> }

\* U+<hex> 1 -2, with a space or a tab and a space between the groups, and
\* with nothing, a or " a" after the last one
CodePointTexts ==
  {<<Ch.U, Ch.plus>> \o h \o ws \o <<D(1)>> \o ws \o <<Ch.minus, D(2)>> \o trail :
     h \in HexSamples, ws \in {<<Ch.sp>>, <<Ch.tab, Ch.sp>>},
     trail \in {<<>>, <<Ch.a>>, <<Ch.sp, Ch.a>>}}

\* lines of one token or none: 1, " -2", 'b', #, the blank line
VLines ==
  { <<D(1)>>, <<Ch.sp, Ch.minus, D(2)>>, <<Ch.quote, Ch.b, Ch.quote>>, <<>> }

\* lines of the first pass: a 1 1, U+0041 1 1, 1 1 1 (malformed)
HLines ==
  { <<Ch.a, Ch.sp, D(1), Ch.sp, D(1)>>,
    <<Ch.U, Ch.plus, D(0), D(0), D(4), D(1), Ch.sp, D(1), Ch.sp, D(1)>>,
    <<D(1), Ch.sp, D(1), Ch.sp, D(1)>> }

\* up to MaxLines one-token lines, with at most one line of the first pass
\* before and at most one after them
TallTexts ==
  {JoinWith(pre \o body \o post, <<Ch.nl>>) :
     pre \in SeqsUpTo(HLines, 1), body \in SeqsUpTo(VLines, MaxLines),
     post \in SeqsUpTo(HLines, 1)}

Texts == WideTexts \cup CodePointTexts \cup TallTexts

\* the documents a fetch may return in the whole-program specification
FetchTexts ==
  { <<>>,
    <<Ch.U, Ch.plus, D(0), D(0), D(4), D(1), Ch.sp, D(3), Ch.sp, Ch.minus, D(2)>>,
    <<Ch.U, Ch.plus, D(1), D(1), D(0), D(0), D(0), D(0), Ch.sp, D(3), Ch.sp, D(2)>>,
    <<D(5), Ch.nl, Ch.hash, Ch.nl, D(7)>>,
    <<D(1), Ch.sp, D(2), Ch.sp, D(3)>>,
    <<Ch.a, Ch.comma, D(0), Ch.comma, D(0), Ch.nl, D(1), Ch.nl, Ch.b, Ch.nl, D(1)>> }

(***************************************************************************)
(* The program.  pc is the position in _cli -> print_grid_from_doc_url ->  *)
(* fetch_doc_text / parse_text_to_points ("fetch_raised" and "raised": an  *)
(* exception left fetch_doc_text or parse_text_to_points and nothing       *)
(* caught it); exit is <<>> until _cli returns and then holds its return   *)
(* value; fetches is the sequence of calls of fetch_url_text made so far.  *)
(***************************************************************************)
url == argv[2]

\* one call of fetch_url_text: the URL asked for, and whether it returned
Fetched(u, ok) == [url |-> u, ok |-> ok]

Init ==
  /\ argv \in {<<Prog>>} \cup {<<Prog, u>> : u \in Urls}
  /\ pc = "cli"
  /\ fetches = <<>>
  /\ text = <<>>
  /\ lines = <<>>
  /\ raw_lines = <<>>
  /\ li = 0
  /\ vi = 0
  /\ points = NoPoints
  /\ malformed_inline = 0
  /\ stderr = <<>>
  /\ stdout = <<>>
  /\ exit = <<>>

\* _cli: len(argv) < 2
CliUsage ==
  /\ pc = "cli"
  /\ Len(argv) < 2
  /\ stdout' = Append(stdout, Usage)
  /\ exit' = <<1>>
  /\ pc' = "exit"
  /\ UNCHANGED <<argv, fetches, text, lines, raw_lines, li, vi, points,
                 malformed_inline, stderr>>

\* _cli calls print_grid_from_doc_url(argv[1]), which calls fetch_doc_text
CliRun ==
  /\ pc = "cli"
  /\ Len(argv) >= 2
  /\ pc' = "fetch"
  /\ UNCHANGED <<argv, fetches, text, lines, raw_lines, li, vi, points,
                 malformed_inline, stderr, stdout, exit>>

\* fetch_url_text(export) returns
FetchExportOk ==
  /\ pc = "fetch"
  /\ extract_doc_id(url).ok
  /\ fetches' = Append(fetches, Fetched(ExportUrl(extract_doc_id(url).id), TRUE))
  /\ \E t \in FetchTexts : text' = t
  /\ pc' = "parse"
  /\ UNCHANGED <<argv, lines, raw_lines, li, vi, points, malformed_inline,
                 stderr, stdout, exit>>

\* fetch_url_text(export) raises: except Exception: pass
FetchExportFail ==
  /\ pc = "fetch"
  /\ extract_doc_id(url).ok
  /\ fetches' = Append(fetches, Fetched(ExportUrl(extract_doc_id(url).id), FALSE))
  /\ pc' = "fallback"
  /\ UNCHANGED <<argv, text, lines, raw_lines, li, vi, points,
                 malformed_inline, stderr, stdout, exit>>

\* fetch_doc_text that may skip the export URL though there is a doc id
AtOriginal_SkipsExport == pc = "fallback" \/ pc = "fetch"

AtOriginal == pc = "fallback" \/ (pc = "fetch" /\ ~extract_doc_id(url).ok)

\* return fetch_url_text(url)
FetchOriginalOk ==
  /\ AtOriginal
  /\ fetches' = Append(fetches, Fetched(url, TRUE))
  /\ \E t \in FetchTexts : text' = t
  /\ pc' = "parse"
  /\ UNCHANGED <<argv, lines, raw_lines, li, vi, points, malformed_inline,
                 stderr, stdout, exit>>

\* fetch_url_text(url) raises and nothing catches it
FetchOriginalFail ==
  /\ AtOriginal
  /\ fetches' = Append(fetches, Fetched(url, FALSE))
  /\ pc' = "fetch_raised"
  /\ UNCHANGED <<argv, text, lines, raw_lines, li, vi, points,
                 malformed_inline, stderr, stdout, exit>>

\* parse_text_to_points up to the first loop
ParseBegin ==
  /\ pc = "parse"
  /\ points' = NoPoints
  /\ lines' = StrippedLines(text)
  /\ malformed_inline' = 0
  /\ li' = 1
  /\ pc' = "inline"
  /\ UNCHANGED <<argv, fetches, text, raw_lines, vi, stderr, stdout, exit>>

\* one iteration of "for line in lines"
InlineStep ==
  /\ pc = "inline"
  /\ li <= Len(lines)
  /\ LET r == InlineLine(lines[li])
     IN /\ pc' = IF r.raises THEN "raised" ELSE "inline"
        /\ points' = IF r.store.ok THEN Put(points, r.store.key, r.store.token)
                     ELSE points
        /\ malformed_inline' = malformed_inline + r.malformed
  /\ li' = li + 1
  /\ UNCHANGED <<argv, fetches, text, lines, raw_lines, vi, stderr, stdout, exit>>

\* VerticalBegin scanning the non-blank stripped lines of the first pass
VerticalBegin_DropsBlankLines ==
  /\ pc = "inline"
  /\ li > Len(lines)
  /\ raw_lines' = lines
  /\ vi' = 1
  /\ pc' = "vertical"
  /\ UNCHANGED <<argv, fetches, text, lines, li, points, malformed_inline,
                 stderr, stdout, exit>>

\* the first loop is over: raw_lines = text.splitlines()
VerticalBegin ==
  /\ pc = "inline"
  /\ li > Len(lines)
  /\ raw_lines' = SplitLines(text)
  /\ vi' = 1
  /\ pc' = "vertical"
  /\ UNCHANGED <<argv, fetches, text, lines, li, points, malformed_inline,
                 stderr, stdout, exit>>

\* one iteration of "for i in range(len(raw_lines) - 2)"
VerticalStep ==
  /\ pc = "vertical"
  /\ vi <= Len(raw_lines) - 2
  /\ LET v == VerticalAt(raw_lines, vi)
     IN points' = IF v.ok THEN Put(points, v.key, v.token) ELSE points
  /\ vi' = vi + 1
  /\ UNCHANGED <<argv, pc, fetches, text, lines, raw_lines, li,
                 malformed_inline, stderr, stdout, exit>>

\* the warning and "return points"
ParseReturn ==
  /\ pc = "vertical"
  /\ vi > Len(raw_lines) - 2
  /\ stderr' = IF malformed_inline > 0 THEN Append(stderr, malformed_inline)
               ELSE stderr
  /\ pc' = "render"
  /\ UNCHANGED <<argv, fetches, text, lines, raw_lines, li, vi, points,
                 malformed_inline, stdout, exit>>

\* the rest of print_grid_from_doc_url
Render ==
  /\ pc = "render"
  /\ stdout' = stdout \o Printed(points)
  /\ pc' = "return"
  /\ UNCHANGED <<argv, fetches, text, lines, raw_lines, li, vi, points,
                 malformed_inline, stderr, exit>>

\* _cli: return 0
CliReturn ==
  /\ pc = "return"
  /\ exit' = <<0>>
  /\ pc' = "exit"
  /\ UNCHANGED <<argv, fetches, text, lines, raw_lines, li, vi, points,
                 malformed_inline, stderr, stdout>>

Next ==
  \/ CliUsage
  \/ CliRun
  \/ FetchExportOk
  \/ FetchExportFail
  \/ FetchOriginalOk
  \/ FetchOriginalFail
  \/ ParseBegin
  \/ InlineStep
  \/ VerticalBegin
  \/ VerticalStep
  \/ ParseReturn
  \/ Render
  \/ CliReturn

Spec == Init /\ [][Next]_vars

\* print_grid_from_doc_url once fetch_doc_text has returned a text
InitParsing ==
  /\ argv = <<Prog, <<Host, "/edit">> >>
  /\ pc = "parse"
  /\ fetches = <<Fetched(url, TRUE)>>
  /\ text \in Texts
  /\ lines = <<>>
  /\ raw_lines = <<>>
  /\ li = 0
  /\ vi = 0
  /\ points = NoPoints
  /\ malformed_inline = 0
  /\ stderr = <<>>
  /\ stdout = <<>>
  /\ exit = <<>>

NextParsing ==
  \/ ParseBegin
  \/ InlineStep
  \/ VerticalBegin
  \/ VerticalStep
  \/ ParseReturn
  \/ Render
  \/ CliReturn

SpecParsing == InitParsing /\ [][NextParsing]_vars

(***************************************************************************)
(* The properties.  They restate what a line or a group of lines is to     *)
(* contribute from the text alone and compare it with what the program     *)
(* stored.                                                                 *)
(***************************************************************************)
Returned == pc \in {"render", "return", "exit"}

\* the tokens of the window at i that are integers, by offset 0..2
IntOffsets(toks, i) == {j \in 0..2 : is_int(toks[i + j])}

\* the window at i is a triplet: two integers and one other token that is
\* not empty once its surrounding quotes are removed
IsTriplet(toks, i) ==
  /\ Cardinality(IntOffsets(toks, i)) = 2
  /\ \E j \in 0..2 \ IntOffsets(toks, i) : StripChars(toks[i + j], QuoteChars) # <<>>

\* its coordinate: the two integers in the order they are written
TripletKey(toks, i) ==
  <<int(toks[i + Min(IntOffsets(toks, i))]), int(toks[i + Max(IntOffsets(toks, i))])>>

\* its token: the third one, without its surrounding quotes
TripletToken(toks, i) ==
  LET j == CHOOSE j \in 0..2 : j \notin IntOffsets(toks, i)
  IN StripChars(toks[i + j], QuoteChars)

Triplets(toks) == {i \in 1..(Len(toks) - 2) : IsTriplet(toks, i)}

IsCodePointLine(line) == RuSearch(line).ok

\* a line the first pass is to count: no code-point form, 3 tokens or more,
\* no window that is a triplet
IsMalformed(line) ==
  /\ ~IsCodePointLine(line)
  /\ Len(ReSplit(line)) >= 3
  /\ Triplets(ReSplit(line)) = {}

\* C1: a line that is not of the code-point form and has 3 tokens or more
\* adds exactly the point of its leftmost window that is a triplet ((int,
\* int, other), (int, other, int) or (other, int, int), the other token not
\* empty without its quotes), and nothing when no window is one.
C1_LeftmostTripletStored ==
  [][(InlineStep /\ ~IsCodePointLine(lines[li]) /\ Len(ReSplit(lines[li])) >= 3)
     => LET toks == ReSplit(lines[li])
        IN IF Triplets(toks) = {}
           THEN points' = points
           ELSE LET w == Min(Triplets(toks))
                IN /\ DOMAIN points' = DOMAIN points \cup {TripletKey(toks, w)}
                   /\ points'[TripletKey(toks, w)] = TripletToken(toks, w)
                   /\ \A k \in DOMAIN points :
                        k # TripletKey(toks, w) => points'[k] = points[k]]_vars

\* the first line had a first window whose token is only quotes, and a later
\* window that is a triplet, whose point is the one stored
C1_Witness ==
  /\ pc = "inline"
  /\ li = 2
  /\ ~IsCodePointLine(lines[1])
  /\ LET toks == ReSplit(lines[1])
     IN /\ Len(toks) >= 4
        /\ Cardinality(IntOffsets(toks, 1)) = 2
        /\ ~IsTriplet(toks, 1)
        /\ IsTriplet(toks, 2)
        /\ DOMAIN points = {TripletKey(toks, 2)}
        /\ points[TripletKey(toks, 2)] = TripletToken(toks, 2)

\* C2: a line of the code-point form stores the character of its hex value
\* at (x, y), stores nothing else and is not counted as malformed.
C2_CodePointLineStored ==
  [][(InlineStep /\ IsCodePointLine(lines[li]))
     => LET m == RuSearch(lines[li])
        IN /\ DOMAIN points' = DOMAIN points \cup {<<m.x, m.y>>}
           /\ points'[<<m.x, m.y>>] = <<HexVal(m.hex)>>
           /\ \A k \in DOMAIN points : k # <<m.x, m.y>> => points'[k] = points[k]
           /\ malformed_inline' = malformed_inline]_vars

\* C7: the count is the number of malformed lines, a malformed line stores
\* nothing and stops nothing, and the warning is written once, with the
\* count, exactly when the count is not 0.
MalformedCount(t) ==
  Cardinality({j \in 1..Len(StrippedLines(t)) : IsMalformed(StrippedLines(t)[j])})

C7_MalformedCounted ==
  /\ [](pc = "vertical" /\ vi = 1 => malformed_inline = MalformedCount(text))
  /\ [](pc = "render" => LET n == MalformedCount(text)
                         IN /\ malformed_inline = n
                            /\ stderr = IF n > 0 THEN <<n>> ELSE <<>>)
  /\ [](~Returned => stderr = <<>>)
  /\ [][Returned => stderr' = stderr]_vars
  /\ [][(InlineStep /\ IsMalformed(lines[li]))
        => points' = points /\ pc' = "inline"]_vars

\* two lines were counted and a vertical triplet between them was stored
C7_Witness ==
  /\ pc = "exit"
  /\ malformed_inline = 2
  /\ stderr = <<2>>
  /\ IsMalformed(lines[1])
  /\ DOMAIN points # {}

\* C9: parse_text_to_points never raises.
C9_ParseNeverRaises == pc # "raised"

\* C10, as claimed: every stored token is non-empty and neither begins nor
\* ends with a quote character.
C10_NoTokenKeepsQuotes ==
  \A k \in DOMAIN points :
    /\ points[k] # <<>>
    /\ points[k][1] \notin QuoteChars
    /\ points[k][Len(points[k])] \notin QuoteChars

\* C10, amended: every stored token is non-empty, and a token stored by an
\* inline triplet neither begins nor ends with a quote character.
C10_InlineTokensStripped ==
  /\ [](\A k \in DOMAIN points : points[k] # <<>>)
  /\ [][(InlineStep /\ ~IsCodePointLine(lines[li]))
        => \A k \in DOMAIN points' :
             (k \notin DOMAIN points \/ points'[k] # points[k])
             => /\ points'[k][1] \notin QuoteChars
                /\ points'[k][Len(points'[k])] \notin QuoteChars]_vars

\* an inline line whose token was written in quotes has been stored
C10_Witness ==
  /\ pc = "inline"
  /\ li = 2
  /\ ~IsCodePointLine(lines[1])
  /\ \E i \in 1..Len(lines[1]) : lines[1][i] \in QuoteChars
  /\ DOMAIN points # {}
  /\ \A k \in DOMAIN points : points[k] = <<Ch.b>>

\* the trimmed lines i, i+1, i+2 of the text are (integer, other non-empty
\* line, integer)
IsVertical(t, i) ==
  LET ls == SplitLines(t)
  IN /\ i + 2 <= Len(ls)
     /\ is_int(Strip(ls[i]))
     /\ Strip(ls[i + 1]) # <<>>
     /\ ~is_int(Strip(ls[i + 1]))
     /\ is_int(Strip(ls[i + 2]))

VerticalKey(t, i) == <<int(Strip(SplitLines(t)[i])), int(Strip(SplitLines(t)[i + 2]))>>

VerticalToken(t, i) == Strip(SplitLines(t)[i + 1])

\* what line j of the non-blank lines is to store in the first pass
LineStores(t, j) ==
  LET line == StrippedLines(t)[j]
  IN IF IsCodePointLine(line) THEN TRUE
     ELSE Len(ReSplit(line)) >= 3 /\ Triplets(ReSplit(line)) # {}

LineKey(t, j) ==
  LET line == StrippedLines(t)[j]
  IN IF IsCodePointLine(line) THEN <<RuSearch(line).x, RuSearch(line).y>>
     ELSE TripletKey(ReSplit(line), Min(Triplets(ReSplit(line))))

LineToken(t, j) ==
  LET line == StrippedLines(t)[j]
  IN IF IsCodePointLine(line) THEN <<HexVal(RuSearch(line).hex)>>
     ELSE TripletToken(ReSplit(line), Min(Triplets(ReSplit(line))))

\* the vertical triplets and the first-pass lines that target coordinate k
VerticalsAt(t, k) ==
  {i \in 1..Len(SplitLines(t)) : IsVertical(t, i) /\ VerticalKey(t, i) = k}

LinesAt(t, k) ==
  {j \in 1..Len(StrippedLines(t)) : LineStores(t, j) /\ LineKey(t, j) = k}

TargetedKeys(t) ==
  {VerticalKey(t, i) : i \in {i \in 1..Len(SplitLines(t)) : IsVertical(t, i)}}
  \cup {LineKey(t, j) : j \in {j \in 1..Len(StrippedLines(t)) : LineStores(t, j)}}

CellText(x, y) == IF <<x, y>> \in DOMAIN points THEN points[<<x, y>>] ELSE <<Ch.sp>>

\* the cells of the row for y, from x = lo to x = hi, one after the other
RECURSIVE RowText(_, _, _)
RowText(y, lo, hi) ==
  IF lo > hi THEN <<>> ELSE CellText(lo, y) \o RowText(y, lo + 1, hi)

\* C4: a non-empty mapping is printed as max_y - min_y + 1 rows, by
\* increasing y, each the cells for min_x .. max_x by increasing x, a cell
\* being the token at its coordinate or one space.
C4_GridPrinted ==
  (pc = "return" /\ DOMAIN points # {})
  => LET xs == {k[1] : k \in DOMAIN points}
         ys == {k[2] : k \in DOMAIN points}
     IN /\ Len(stdout) = Max(ys) - Min(ys) + 1
        /\ \A n \in 1..Len(stdout) :
             stdout[n] = Row(RowText(Min(ys) + n - 1, Min(xs), Max(xs)))

\* a grid with a negative coordinate, several rows and columns and a gap
C4_Witness ==
  /\ pc = "return"
  /\ Cardinality(DOMAIN points) = 2
  /\ \E k \in DOMAIN points : k[1] < 0
  /\ \E k \in DOMAIN points : k[2] < 0
  /\ Len(stdout) = 4
  /\ \E n \in 1..Len(stdout) : stdout[n] = Row(<<Ch.sp, Ch.sp, Ch.sp, Ch.sp>>)

\* the identifier of the two rules of extract_doc_id, the path rule first
PathIds(u) ==
  {p \in 1..(Len(u) - 1) : u[p] = PathMark /\ u[p + 1] \in IdPieces}

QueryIds(u) ==
  {p \in 1..(Len(u) - 1) : u[p] \in QueryMarks /\ u[p + 1] \in IdPieces}

HasDocId(u) == PathIds(u) # {} \/ QueryIds(u) # {}

ExpectedExport(u) ==
  LET p == IF PathIds(u) # {} THEN Min(PathIds(u)) ELSE Min(QueryIds(u))
      e == CHOOSE e \in p..Len(u) :
             /\ \A q \in (p + 1)..e : u[q] \in IdPieces
             /\ (e = Len(u) \/ u[e + 1] \notin IdPieces)
  IN <<Host, PathMark>> \o SubSeq(u, p + 1, e) \o <<"/export?format=txt">>

\* C5: the export URL is fetched first exactly when the URL has a doc id;
\* when that fetch returns nothing else is fetched; when it fails the
\* original URL is fetched once; when the fetch of the original URL fails
\* nothing is printed and _cli does not return.
C5_ExportThenOriginal ==
  pc \notin {"cli", "fetch"} /\ Len(argv) >= 2
  => /\ Len(fetches) \in 1..2
     /\ fetches[1].url = IF HasDocId(url) THEN ExpectedExport(url) ELSE url
     /\ Len(fetches) = 2 <=> HasDocId(url) /\ ~fetches[1].ok /\ pc # "fallback"
     /\ Len(fetches) = 2 => fetches[2].url = url
     /\ pc = "fallback" <=> Len(fetches) = 1 /\ HasDocId(url) /\ ~fetches[1].ok
     /\ pc = "fetch_raised" <=> ~fetches[Len(fetches)].ok /\ pc # "fallback"
     /\ pc = "fetch_raised" => stdout = <<>> /\ stderr = <<>> /\ exit = <<>>

\* a URL with a query id before a path id: the export URL of the path id
\* failed, then the original URL failed
C5_Witness ==
  /\ pc = "fetch_raised"
  /\ Len(fetches) = 2
  /\ PathIds(url) # {}
  /\ QueryIds(url) # {}
  /\ Min(QueryIds(url)) < Min(PathIds(url))
  /\ url[Min(QueryIds(url)) + 1] # url[Min(PathIds(url)) + 1]

\* C6: an empty mapping prints the sentinel line and nothing else, and _cli
\* returns 0 when it was given a URL, whatever the mapping, and 1 only
\* when it was not.
C6_SentinelAndExitStatus ==
  /\ pc \in {"return", "exit"} /\ Len(argv) >= 2 /\ DOMAIN points = {}
     => stdout = <<Sentinel>>
  /\ pc = "return" /\ DOMAIN points # {}
     => \A n \in 1..Len(stdout) : stdout[n].kind = "row"
  /\ pc = "exit" => exit = IF Len(argv) >= 2 THEN <<0>> ELSE <<1>>
  /\ pc # "exit" => exit = <<>>

\* _cli returned 0 after a document without any triplet
C6_Witness ==
  /\ pc = "exit"
  /\ Len(argv) = 2
  /\ text # <<>>
  /\ DOMAIN points = {}
  /\ stdout = <<Sentinel>>
  /\ exit = <<0>>

\* C8: the second pass looks at every index of the lines of the text, blank
\* lines kept, one after the other; at an index where the trimmed lines are
\* (integer, other non-empty line, integer) it stores the middle one at
\* (first, third), and at any other index it stores nothing.
C8_VerticalEveryIndex ==
  /\ [][VerticalStep
        => /\ vi' = vi + 1
           /\ IF IsVertical(text, vi)
              THEN /\ DOMAIN points' = DOMAIN points \cup {VerticalKey(text, vi)}
                   /\ points'[VerticalKey(text, vi)] = VerticalToken(text, vi)
                   /\ \A k \in DOMAIN points :
                        k # VerticalKey(text, vi) => points'[k] = points[k]
              ELSE points' = points]_vars
  /\ [](pc = "vertical" /\ vi = 1 => raw_lines = SplitLines(text))
  /\ [](pc = "render" => \A i \in 1..Len(SplitLines(text)) :
                           IsVertical(text, i) => i < vi)

\* two vertical triplets that share a line have both been stored
C8_Witness ==
  /\ pc = "render"
  /\ \E i \in 1..Len(SplitLines(text)) :
       /\ IsVertical(text, i)
       /\ IsVertical(text, i + 2)
       /\ VerticalKey(text, i) # VerticalKey(text, i + 2)
       /\ {VerticalKey(text, i), VerticalKey(text, i + 2)} \subseteq DOMAIN points
       /\ Cardinality(DOMAIN points) = 2

====
